---- MODULE Spec2Model ----
(***************************************************************************)
(* Model of computer_use_demo/loop.py: the agentic sampling loop, the      *)
(* Anthropic <-> OpenAI message translators and the history policies.      *)
(*                                                                         *)
(* Representation.  A Python string is a sequence of tokens (so that       *)
(* concatenation is \o and the empty string, like None, is <<>> and        *)
(* falsy).  A dict is a record; an optional key is a field that some       *)
(* records lack, except cache_control, which every content block carries   *)
(* as a boolean (FALSE = key absent).  A message's content is tagged:      *)
(* Str(t) for a str, List(b) for a list of blocks.                         *)
(***************************************************************************)
EXTENDS Integers, Sequences, FiniteSets, TLC

\* ---------------------------------------------------------------- bounds
\* tool calls the backend may request in one run of the loop, over all turns
MaxToolCalls == 3

\* ------------------------------------------------------- data constructors
Str(t) == [str |-> TRUE, text |-> t, blocks |-> <<>>]
List(b) == [str |-> FALSE, text |-> <<>>, blocks |-> b]

TextBlock(t) == [type |-> "text", text |-> t, cache_control |-> FALSE]

ImageBlock(data) ==
    [type |-> "image",
     source |-> [type |-> "base64", media_type |-> "image/png", data |-> data],
     cache_control |-> FALSE]

ToolUseBlock(id, name, input) ==
    [type |-> "tool_use", id |-> id, name |-> name, input |-> input,
     cache_control |-> FALSE]

ImageUrlPart(media_type, data) ==
    [type |-> "image_url",
     image_url |-> [url |-> <<"data:", media_type, ";base64,">> \o data]]

\* tools.ToolResult as the loop reads it: output, error, base64_image, system
ToolResult(output, error, image, system) ==
    [output |-> output, error |-> error, base64_image |-> image, system |-> system]

\* json.dumps / json.loads on the tool-call argument objects
JsonObjects == {"objA", "objB"}
json_dumps(obj) == <<"{", obj, "}">>
JsonValid(s) == \E o \in JsonObjects : json_dumps(o) = s
json_loads(s) == CHOOSE o \in JsonObjects : json_dumps(o) = s

\* f[1] \o f[2] \o ... \o f[n] for a sequence of sequences
Concat(ss) ==
    LET c[i \in 0..Len(ss)] == IF i = 0 THEN <<>> ELSE c[i - 1] \o ss[i]
    IN  c[Len(ss)]

\* ------------------------------------------------- tool result translators
_maybe_prepend_system_tool_result(result, result_text) ==
    IF result.system # <<>>
    THEN <<"<system>">> \o result.system \o <<"</system>\n">> \o result_text
    ELSE result_text

\* an error result passed on like a result without error
_make_api_tool_result_ErrorAsOutput(result, tool_use_id) ==
    LET textPart == IF result.output # <<>>
                    THEN <<TextBlock(_maybe_prepend_system_tool_result(result, result.output))>>
                    ELSE <<>>
        imagePart == IF result.base64_image # <<>>
                     THEN <<ImageBlock(result.base64_image)>>
                     ELSE <<>>
    IN  [type |-> "tool_result",
         content |-> List(textPart \o imagePart),
         tool_use_id |-> tool_use_id,
         is_error |-> FALSE,
         cache_control |-> FALSE]

\* the image block put before the text block
_make_api_tool_result_ImageFirst(result, tool_use_id) ==
    LET textPart == IF result.output # <<>>
                    THEN <<TextBlock(_maybe_prepend_system_tool_result(result, result.output))>>
                    ELSE <<>>
        imagePart == IF result.base64_image # <<>>
                     THEN <<ImageBlock(result.base64_image)>>
                     ELSE <<>>
    IN  [type |-> "tool_result",
         content |-> IF result.error # <<>>
                     THEN Str(_maybe_prepend_system_tool_result(result, result.error))
                     ELSE List(imagePart \o textPart),
         tool_use_id |-> tool_use_id,
         is_error |-> (result.error # <<>>),
         cache_control |-> FALSE]

_make_api_tool_result(result, tool_use_id) ==
    LET textPart == IF result.output # <<>>
                    THEN <<TextBlock(_maybe_prepend_system_tool_result(result, result.output))>>
                    ELSE <<>>
        imagePart == IF result.base64_image # <<>>
                     THEN <<ImageBlock(result.base64_image)>>
                     ELSE <<>>
    IN  [type |-> "tool_result",
         content |-> IF result.error # <<>>
                     THEN Str(_maybe_prepend_system_tool_result(result, result.error))
                     ELSE List(textPart \o imagePart),
         tool_use_id |-> tool_use_id,
         is_error |-> (result.error # <<>>),
         cache_control |-> FALSE]

\* the image message put before the tool message
_make_nebius_tool_result_ImageFirst(result, tool_call_id, tool_name) ==
    LET tool_content ==
            IF result.error # <<>>
            THEN _maybe_prepend_system_tool_result(result, result.error)
            ELSE IF result.output # <<>>
                 THEN _maybe_prepend_system_tool_result(result, result.output)
                 ELSE <<>>
        toolMsg == [role |-> "tool", tool_call_id |-> tool_call_id,
                    name |-> tool_name, content |-> Str(tool_content)]
        imageMsg == [role |-> "user",
                     content |-> List(<<ImageUrlPart("image/png", result.base64_image)>>)]
    IN  IF result.base64_image # <<>> THEN <<imageMsg, toolMsg>> ELSE <<toolMsg>>

_make_nebius_tool_result(result, tool_call_id, tool_name) ==
    LET tool_content ==
            IF result.error # <<>>
            THEN _maybe_prepend_system_tool_result(result, result.error)
            ELSE IF result.output # <<>>
                 THEN _maybe_prepend_system_tool_result(result, result.output)
                 ELSE <<>>
        toolMsg == [role |-> "tool", tool_call_id |-> tool_call_id,
                    name |-> tool_name, content |-> Str(tool_content)]
        imageMsg == [role |-> "user",
                     content |-> List(<<ImageUrlPart("image/png", result.base64_image)>>)]
    IN  IF result.base64_image # <<>> THEN <<toolMsg, imageMsg>> ELSE <<toolMsg>>

\* ------------------------------------------------------ response parsers
\* An OpenAI response is choices[0].message: content (a string, <<>> when
\* None) and tool_calls, each with id, function.name, function.arguments.
OpenAIArgsValid(openai_response) ==
    \A i \in 1..Len(openai_response.tool_calls) :
        JsonValid(openai_response.tool_calls[i].arguments)

_convert_openai_response_to_anthropic(openai_response) ==
    LET textPart == IF openai_response.content # <<>>
                    THEN <<TextBlock(openai_response.content)>>
                    ELSE <<>>
        calls == [i \in 1..Len(openai_response.tool_calls) |->
                    ToolUseBlock(openai_response.tool_calls[i].id,
                                 openai_response.tool_calls[i].name,
                                 json_loads(openai_response.tool_calls[i].arguments))]
    IN  textPart \o calls

\* A BetaMessage is its content: blocks of kind "text" (a BetaTextBlock)
\* or anything else, which is dumped as it is.
_response_to_params(response) ==
    Concat([i \in 1..Len(response) |->
              IF response[i].type = "text"
              THEN IF response[i].text # <<>> THEN <<TextBlock(response[i].text)>> ELSE <<>>
              ELSE <<response[i]>>])

\* adapters.py 10-14 and 80-92: NebiusOpenAIAdapter.from_api_response; the
\* InternalMessage holds the tool calls when the response has any, and the
\* text otherwise
InternalToolCall(id, name, input) == [id |-> id, name |-> name, input |-> input]

from_api_response(response) ==
    IF response.tool_calls # <<>>
    THEN [role |-> "assistant",
          content |-> List([i \in 1..Len(response.tool_calls) |->
                              InternalToolCall(response.tool_calls[i].id,
                                               response.tool_calls[i].name,
                                               json_loads(response.tool_calls[i].arguments))])]
    ELSE [role |-> "assistant", content |-> Str(response.content)]

\* ------------------------------------------- Anthropic -> OpenAI messages
TextPart(t) == [type |-> "text", text |-> t]

\* only the first text block of the assistant message kept
ConvertAssistant_FirstTextOnly(message) ==
    LET blocks == message.content.blocks
        texts == Concat([i \in 1..Len(blocks) |->
                            IF blocks[i].type = "text" THEN <<blocks[i].text>> ELSE <<>>])
        content_text == IF texts = <<>> THEN <<>> ELSE texts[1]
        tool_calls == Concat([i \in 1..Len(blocks) |->
                            IF blocks[i].type = "tool_use"
                            THEN <<[id |-> blocks[i].id, type |-> "function",
                                    function |-> [name |-> blocks[i].name,
                                                  arguments |-> json_dumps(blocks[i].input)]]>>
                            ELSE <<>>])
    IN  <<IF content_text # <<>> /\ tool_calls # <<>>
          THEN [role |-> "assistant", content |-> Str(content_text), tool_calls |-> tool_calls]
          ELSE IF content_text # <<>>
          THEN [role |-> "assistant", content |-> Str(content_text)]
          ELSE IF tool_calls # <<>>
          THEN [role |-> "assistant", tool_calls |-> tool_calls]
          ELSE [role |-> "assistant"]>>

\* one assistant message with list content (loop.py 57-81)
ConvertAssistant(message) ==
    LET blocks == message.content.blocks
        content_text == Concat([i \in 1..Len(blocks) |->
                            IF blocks[i].type = "text" THEN blocks[i].text ELSE <<>>])
        tool_calls == Concat([i \in 1..Len(blocks) |->
                            IF blocks[i].type = "tool_use"
                            THEN <<[id |-> blocks[i].id, type |-> "function",
                                    function |-> [name |-> blocks[i].name,
                                                  arguments |-> json_dumps(blocks[i].input)]]>>
                            ELSE <<>>])
    IN  <<IF content_text # <<>> /\ tool_calls # <<>>
          THEN [role |-> "assistant", content |-> Str(content_text), tool_calls |-> tool_calls]
          ELSE IF content_text # <<>>
          THEN [role |-> "assistant", content |-> Str(content_text)]
          ELSE IF tool_calls # <<>>
          THEN [role |-> "assistant", tool_calls |-> tool_calls]
          ELSE [role |-> "assistant"]>>

\* the text of one tool_result block (loop.py 101-122)
ToolResultText(block) ==
    IF block.content.str
    THEN block.content.text
    ELSE LET items == block.content.blocks
         IN  Concat([k \in 1..Len(items) |->
                       IF items[k].type = "text" THEN items[k].text ELSE <<>>])

\* the user messages appended to openai_messages while one tool_result
\* block is scanned: one per image item (loop.py 109-120)
ToolResultImageMessages(block) ==
    IF block.content.str
    THEN <<>>
    ELSE LET items == block.content.blocks
         IN  Concat([k \in 1..Len(items) |->
                       IF items[k].type = "image"
                       THEN <<[role |-> "user",
                               content |-> List(<<ImageUrlPart(items[k].source.media_type,
                                                                items[k].source.data)>>)]>>
                       ELSE <<>>])

\* one user message with list content (loop.py 83-138)
ConvertUser(message) ==
    LET blocks == message.content.blocks
        content_parts == Concat([i \in 1..Len(blocks) |->
                            IF blocks[i].type = "text"
                            THEN <<TextPart(blocks[i].text)>>
                            ELSE IF blocks[i].type = "image"
                            THEN <<ImageUrlPart(blocks[i].source.media_type,
                                                blocks[i].source.data)>>
                            ELSE <<>>])
        emitted_in_scan == Concat([i \in 1..Len(blocks) |->
                            IF blocks[i].type = "tool_result"
                            THEN ToolResultImageMessages(blocks[i])
                            ELSE <<>>])
        tool_results == Concat([i \in 1..Len(blocks) |->
                            IF blocks[i].type = "tool_result"
                            THEN <<[role |-> "tool",
                                    tool_call_id |-> blocks[i].tool_use_id,
                                    content |-> Str(ToolResultText(blocks[i]))]>>
                            ELSE <<>>])
        parts_message ==
            IF content_parts = <<>> THEN <<>>
            ELSE <<[role |-> "user",
                    content |-> IF Len(content_parts) > 1
                                THEN List(content_parts)
                                ELSE Str(IF "text" \in DOMAIN content_parts[1]
                                         THEN content_parts[1].text ELSE <<>>)]>>
    IN  emitted_in_scan \o tool_results \o parts_message

ConvertMessage(message) ==
    IF message.content.str
    THEN <<[role |-> message.role, content |-> Str(message.content.text)]>>
    ELSE IF message.role = "assistant" THEN ConvertAssistant(message)
    ELSE IF message.role = "user" THEN ConvertUser(message)
    ELSE <<>>

_convert_anthropic_messages_to_openai(messages) ==
    Concat([i \in 1..Len(messages) |-> ConvertMessage(messages[i])])

\* ------------------------------------------------ Anthropic -> OpenAI tools
\* A tool parameter is a dict with "name" and, for a custom tool,
\* "description" and "input_schema"; descriptions and JSON schemas are token
\* sequences (<<>> for "" and {}).
Get(dict, key, default) == IF key \in DOMAIN dict THEN dict[key] ELSE default

\* loop.py 146-238, the declarations written out in the function
ANTHROPIC_TO_OPENAI_TOOLS ==
    [tool_name \in {"computer", "str_replace_editor", "bash"} |->
        [type |-> "function",
         function |->
            [name |-> tool_name,
             description |->
                IF tool_name = "computer"
                THEN <<"Take a screenshot, click, type, scroll, ...">>
                ELSE IF tool_name = "str_replace_editor"
                THEN <<"A text editor tool for viewing, creating and editing ...">>
                ELSE <<"Execute bash commands in the terminal. ...">>,
             parameters |->
                IF tool_name = "computer"
                THEN <<"object", "action", "text", "coordinate", "scroll_direction",
                       "scroll_amount", "required:action">>
                ELSE IF tool_name = "str_replace_editor"
                THEN <<"object", "command", "path", "file_text", "old_str", "new_str",
                       "required:command,path">>
                ELSE <<"object", "command", "required:command">>]]]

\* every tool taken through the fallback branch
_convert_anthropic_tools_to_openai_AlwaysCopies(anthropic_tools) ==
    [i \in 1..Len(anthropic_tools) |->
        LET tool == anthropic_tools[i]
        IN  [type |-> "function",
             function |-> [name |-> Get(tool, "name", "unknown"),
                           description |-> Get(tool, "description", <<>>),
                           parameters |-> Get(tool, "input_schema", <<>>)]]]

\* loop.py 143-260
_convert_anthropic_tools_to_openai(anthropic_tools) ==
    [i \in 1..Len(anthropic_tools) |->
        LET tool == anthropic_tools[i]
            tool_name == Get(tool, "name", "None")
        IN  IF tool_name \in DOMAIN ANTHROPIC_TO_OPENAI_TOOLS
            THEN ANTHROPIC_TO_OPENAI_TOOLS[tool_name]
            ELSE [type |-> "function",
                  function |-> [name |-> Get(tool, "name", "unknown"),
                                description |-> Get(tool, "description", <<>>),
                                parameters |-> Get(tool, "input_schema", <<>>)]]]

\* --------------------------------------------------------- history policies
IsUserList(message) == message.role = "user" /\ ~message.content.str

SetLastCacheControl(messages, i, flag) ==
    LET blocks == messages[i].content.blocks
        n == Len(blocks)
    IN  [messages EXCEPT ![i].content.blocks[n].cache_control = flag]

\* the walk of _inject_prompt_caching from message i down, with
\* breakpoints_remaining
RECURSIVE InjectWalk(_, _, _)
InjectWalk(messages, i, breakpoints_remaining) ==
    IF i = 0 THEN messages
    ELSE IF IsUserList(messages[i])
    THEN IF breakpoints_remaining > 0
         THEN InjectWalk(SetLastCacheControl(messages, i, TRUE), i - 1,
                         breakpoints_remaining - 1)
         ELSE SetLastCacheControl(messages, i, FALSE)
    ELSE InjectWalk(messages, i - 1, breakpoints_remaining)

\* the marker of the fourth most recent user message never taken off
_inject_prompt_caching_NeverClears(messages) ==
    LET walked == InjectWalk(messages, Len(messages), 3)
    IN  [i \in 1..Len(messages) |->
            IF /\ IsUserList(messages[i])
               /\ messages[i].content.blocks[Len(messages[i].content.blocks)].cache_control
            THEN messages[i] ELSE walked[i]]

\* four breakpoints instead of three
_inject_prompt_caching_FourBreakpoints(messages) == InjectWalk(messages, Len(messages), 4)

_inject_prompt_caching(messages) == InjectWalk(messages, Len(messages), 3)

IsToolResultList(block) == block.type = "tool_result" /\ ~block.content.str

\* number of image items in one content block (0 unless a tool_result list)
BlockImages(block) ==
    IF IsToolResultList(block)
    THEN Len(SelectSeq(block.content.blocks, LAMBDA c : c.type = "image"))
    ELSE 0

MessageImages(message) ==
    IF message.content.str THEN 0
    ELSE LET b == message.content.blocks
             s[i \in 0..Len(b)] == IF i = 0 THEN 0 ELSE s[i - 1] + BlockImages(b[i])
         IN  s[Len(b)]

TotalImages(messages) ==
    LET s[i \in 0..Len(messages)] == IF i = 0 THEN 0 ELSE s[i - 1] + MessageImages(messages[i])
    IN  s[Len(messages)]

\* the item after a removed image skipped with it
DropImages_SkipsFollowing(items, remove) ==
    LET seen[k \in 0..Len(items)] ==
            IF k = 0 THEN 0
            ELSE seen[k - 1] + (IF items[k].type = "image" THEN 1 ELSE 0)
    IN  Concat([k \in 1..Len(items) |->
                  IF seen[k] > 0 /\ seen[k] <= remove THEN <<>> ELSE <<items[k]>>])

\* drop the first `remove` image items of a tool_result content list
DropImages(items, remove) ==
    LET seen[k \in 0..Len(items)] ==
            IF k = 0 THEN 0
            ELSE seen[k - 1] + (IF items[k].type = "image" THEN 1 ELSE 0)
    IN  Concat([k \in 1..Len(items) |->
                  IF items[k].type = "image" /\ seen[k] <= remove THEN <<>> ELSE <<items[k]>>])

\* the removal loop over the blocks of one message, images_to_remove given
FilterBlocks(blocks, images_to_remove) ==
    LET before[j \in 0..Len(blocks)] ==
            IF j = 0 THEN 0 ELSE before[j - 1] + BlockImages(blocks[j])
    IN  [j \in 1..Len(blocks) |->
            IF IsToolResultList(blocks[j])
            THEN [blocks[j] EXCEPT !.content.blocks =
                     DropImages(@, images_to_remove - before[j - 1])]
            ELSE blocks[j]]

\* one image more than the rounded count removed
_maybe_filter_to_n_most_recent_images_OneMore(messages, images_to_keep, min_removal_threshold) ==
    LET total_images == TotalImages(messages)
        diff == total_images - images_to_keep
        images_to_remove == diff - (diff % min_removal_threshold) + 1
        before[i \in 0..Len(messages)] ==
            IF i = 0 THEN 0 ELSE before[i - 1] + MessageImages(messages[i])
    IN  [i \in 1..Len(messages) |->
            IF messages[i].content.str THEN messages[i]
            ELSE [messages[i] EXCEPT !.content.blocks =
                     FilterBlocks(@, images_to_remove - before[i - 1])]]

\* one chunk removed by every call that finds more images than are kept
_maybe_filter_to_n_most_recent_images_ChunkPerCall(messages, images_to_keep, min_removal_threshold) ==
    LET total_images == TotalImages(messages)
        diff == total_images - images_to_keep
        images_to_remove == IF diff > 0 THEN min_removal_threshold ELSE 0
        before[i \in 0..Len(messages)] ==
            IF i = 0 THEN 0 ELSE before[i - 1] + MessageImages(messages[i])
    IN  [i \in 1..Len(messages) |->
            IF messages[i].content.str THEN messages[i]
            ELSE [messages[i] EXCEPT !.content.blocks =
                     FilterBlocks(@, images_to_remove - before[i - 1])]]

\* the removal count not rounded down to a multiple of the threshold
_maybe_filter_to_n_most_recent_images_NoChunk(messages, images_to_keep, min_removal_threshold) ==
    LET total_images == TotalImages(messages)
        diff == total_images - images_to_keep
        images_to_remove == diff
        before[i \in 0..Len(messages)] ==
            IF i = 0 THEN 0 ELSE before[i - 1] + MessageImages(messages[i])
    IN  [i \in 1..Len(messages) |->
            IF messages[i].content.str THEN messages[i]
            ELSE [messages[i] EXCEPT !.content.blocks =
                     FilterBlocks(@, images_to_remove - before[i - 1])]]

_maybe_filter_to_n_most_recent_images(messages, images_to_keep, min_removal_threshold) ==
    LET total_images == TotalImages(messages)
        diff == total_images - images_to_keep
        images_to_remove == diff - (diff % min_removal_threshold)
        before[i \in 0..Len(messages)] ==
            IF i = 0 THEN 0 ELSE before[i - 1] + MessageImages(messages[i])
    IN  [i \in 1..Len(messages) |->
            IF messages[i].content.str THEN messages[i]
            ELSE [messages[i] EXCEPT !.content.blocks =
                     FilterBlocks(@, images_to_remove - before[i - 1])]]

\* prompt caching enabled whatever the provider
HistoryPolicies_CachingEverywhere(msgs, prov, only_n) ==
    LET enable_prompt_caching == TRUE
        image_truncation_threshold == only_n
        cached == IF enable_prompt_caching
                  THEN _inject_prompt_caching(msgs) ELSE msgs
        keep == IF enable_prompt_caching THEN 0 ELSE only_n
        trimmed == IF keep # 0
                   THEN _maybe_filter_to_n_most_recent_images(
                            cached, keep, image_truncation_threshold)
                   ELSE cached
    IN  [messages |-> trimmed,
         only_n_most_recent_images |-> keep,
         ops |-> (IF enable_prompt_caching THEN {"inject"} ELSE {})
                 \cup (IF keep # 0 THEN {"filter"} ELSE {})]

\* the count cleared on the OpenAI-compatible provider as well
HistoryPolicies_NebiusUntrimmed(msgs, prov, only_n) ==
    LET enable_prompt_caching == prov = "anthropic"
        image_truncation_threshold == only_n
        cached == IF enable_prompt_caching
                  THEN _inject_prompt_caching(msgs) ELSE msgs
        keep == IF enable_prompt_caching \/ prov = "nebius" THEN 0 ELSE only_n
        trimmed == IF keep # 0
                   THEN _maybe_filter_to_n_most_recent_images(
                            cached, keep, image_truncation_threshold)
                   ELSE cached
    IN  [messages |-> trimmed,
         only_n_most_recent_images |-> keep,
         ops |-> (IF enable_prompt_caching THEN {"inject"} ELSE {})
                 \cup (IF keep # 0 THEN {"filter"} ELSE {})]

\* an unset only_n_most_recent_images taken as "keep no image"
HistoryPolicies_TrimsWhenUnset(msgs, prov, only_n) ==
    LET enable_prompt_caching == prov = "anthropic"
        image_truncation_threshold == only_n
        cached == IF enable_prompt_caching
                  THEN _inject_prompt_caching(msgs) ELSE msgs
        keep == IF enable_prompt_caching THEN 0 ELSE only_n
        trimmed == IF keep # 0
                   THEN _maybe_filter_to_n_most_recent_images(
                            cached, keep, image_truncation_threshold)
                   ELSE _maybe_filter_to_n_most_recent_images(cached, 0, 1)
    IN  [messages |-> trimmed,
         only_n_most_recent_images |-> keep,
         ops |-> (IF enable_prompt_caching THEN {"inject"} ELSE {})
                 \cup (IF keep # 0 THEN {"filter"} ELSE {})]

\* loop.py 385-418, the history policies of one iteration: the conversation
\* after them, the value only_n_most_recent_images is left with, and the
\* policies that ran
HistoryPolicies(msgs, prov, only_n) ==
    LET enable_prompt_caching == prov = "anthropic"
        image_truncation_threshold == only_n
        cached == IF enable_prompt_caching
                  THEN _inject_prompt_caching(msgs) ELSE msgs
        keep == IF enable_prompt_caching THEN 0 ELSE only_n
        trimmed == IF keep # 0
                   THEN _maybe_filter_to_n_most_recent_images(
                            cached, keep, image_truncation_threshold)
                   ELSE cached
    IN  [messages |-> trimmed,
         only_n_most_recent_images |-> keep,
         ops |-> (IF enable_prompt_caching THEN {"inject"} ELSE {})
                 \cup (IF keep # 0 THEN {"filter"} ELSE {})]

\* ------------------------------------------------------------ the loop state
VARIABLES
    provider,                   \* APIProvider of the run
    only_n_most_recent_images,  \* the parameter, reassigned by the loop (0 = None)
    messages,                   \* the caller-owned conversation
    pc,                         \* position of the loop
    response_params,            \* content of the assistant message of this turn
    idx,                        \* position of the for loop over response_params
    tool_result_content,        \* results collected this turn (Anthropic style)
    nebius_tool_messages,       \* result messages collected this turn (Nebius)
    request,                    \* the request handed to the backend client
    sent_messages,              \* the conversation as it was when request was built
    iteration,                  \* requests built in this run
    initial_len,                \* Len(messages) at entry
    calls_issued,               \* tool calls the backend has requested so far
    failure,                    \* kind of backend failure of this run, or "none"
    api_callback_log,           \* invocations of api_response_callback
    output_log,                 \* blocks passed to output_callback this turn
    exec_log,                   \* tool_collection.run events of this turn
    tool_output_log,            \* (result, id) passed to tool_output_callback this turn
    policy,                     \* the latest application of the history policies
    invocation,                 \* number of the sampling_loop call on this conversation
    translation,                \* the latest call of a translator on its own
    parked                      \* the other invocation of sampling_loop, suspended

vars == <<provider, only_n_most_recent_images, messages, pc, response_params, idx,
          tool_result_content, nebius_tool_messages, request, sent_messages,
          iteration, initial_len, calls_issued, failure, api_callback_log,
          output_log, exec_log, tool_output_log,
          policy, invocation, translation, parked>>

Providers == {"anthropic", "bedrock", "vertex", "nebius"}
KeepOptions == {0, 1}

SYSTEM_PROMPT == <<"SYSTEM_PROMPT">>
SystemPromptSuffix == <<" ", "suffix">>

CallId(n) == "call_" \o ToString(n)
CallName(n) == IF n % 2 = 1 THEN "computer" ELSE "bash"
CallInput(n) == IF n % 2 = 1 THEN "objA" ELSE "objB"
ImageData(id) == <<"png_" \o id>>

\* a conversation as the front end starts it, and one resumed after a turn
\* in which call_0 returned text and a screenshot
PlainConversation == <<[role |-> "user", content |-> Str(<<"hi">>)]>>
ResumedConversation ==
    <<[role |-> "user", content |-> List(<<TextBlock(<<"hi">>)>>)],
      [role |-> "assistant",
       content |-> List(<<TextBlock(<<"look">>),
                          ToolUseBlock(CallId(0), CallName(0), CallInput(0))>>)],
      [role |-> "user",
       content |-> List(<<_make_api_tool_result(
                            ToolResult(<<"out">>, <<>>, ImageData(CallId(0)), <<>>), CallId(0))>>)]>>
InitialConversations == {PlainConversation, ResumedConversation}

\* the resumed conversation as a request built on the "anthropic" provider
\* left it (markers on its user messages), for a caller who then switched
\* to the provider without prompt caching
MarkedConversation == _inject_prompt_caching(ResumedConversation)

\* what a tool may return for the call with this id
ToolResultChoices(n) ==
    { ToolResult(<<"out">>, <<>>, <<>>, <<>>),
      ToolResult(<<"out">>, <<>>, ImageData(n), <<"sys">>),
      ToolResult(<<>>, <<"err">>, <<>>, <<"sys">>) }

\* sampling_loop is running once
NoParked == [session |-> 0]

\* no translator has been called on its own
NoTranslation ==
    [op |-> "none", anthropic_tools |-> <<>>, openai_tools |-> <<>>,
     openai_response |-> [content |-> <<>>, tool_calls |-> <<>>],
     params |-> <<>>,
     internal |-> [role |-> "none", content |-> Str(<<>>)]]

Init ==
    /\ provider \in Providers
    /\ only_n_most_recent_images \in KeepOptions
    /\ messages \in InitialConversations
                      \cup (IF provider = "nebius" THEN {MarkedConversation} ELSE {})
    /\ pc = "build"
    /\ response_params = <<>>
    /\ idx = 0
    /\ tool_result_content = <<>>
    /\ nebius_tool_messages = <<>>
    /\ request = [messages |-> <<>>, tool_choice |-> "unset"]
    /\ sent_messages = <<>>
    /\ iteration = 0
    /\ initial_len = Len(messages)
    /\ calls_issued = 0
    /\ failure = "none"
    /\ api_callback_log = <<>>
    /\ output_log = <<>>
    /\ exec_log = <<>>
    /\ tool_output_log = <<>>
    /\ policy = [keep |-> only_n_most_recent_images,
                 chunk |-> only_n_most_recent_images,
                 ops |-> {}, before |-> <<>>]
    /\ invocation = 1
    /\ translation = NoTranslation
    /\ parked = NoParked

\* the tool-forcing mode left to the backend on the OpenAI-compatible path
RequestOf_ToolChoiceLeftOut(prov, msgs) ==
    IF prov = "nebius"
    THEN [messages |->
            <<[role |-> "system",
               content |-> Str(SYSTEM_PROMPT \o SystemPromptSuffix)]>>
            \o _convert_anthropic_messages_to_openai(msgs),
          tool_choice |-> "unset"]
    ELSE [messages |-> msgs, tool_choice |-> "unset"]

\* the system message put after the conversation
RequestOf_SystemLast(prov, msgs) ==
    IF prov = "nebius"
    THEN [messages |->
            _convert_anthropic_messages_to_openai(msgs)
            \o <<[role |-> "system",
                  content |-> Str(SYSTEM_PROMPT \o SystemPromptSuffix)]>>,
          tool_choice |-> "required"]
    ELSE [messages |-> msgs, tool_choice |-> "unset"]

\* loop.py 431-472: what the request carries; on the OpenAI-compatible
\* path the converted conversation with the system message inserted at
\* position 0 and tool_choice="required", otherwise the conversation as it
\* is (the system prompt goes in the parameter `system`) and no tool_choice
RequestOf(prov, msgs) ==
    IF prov = "nebius"
    THEN [messages |->
            <<[role |-> "system",
               content |-> Str(SYSTEM_PROMPT \o SystemPromptSuffix)]>>
            \o _convert_anthropic_messages_to_openai(msgs),
          tool_choice |-> "required"]
    ELSE [messages |-> msgs, tool_choice |-> "unset"]

\* ------------------------------------------------------------ BUILD_REQUEST
\* loop.py 385-446/464-472: the history policies, then the request
BuildRequest ==
    /\ pc = "build"
    /\ LET applied == HistoryPolicies(messages, provider, only_n_most_recent_images)
           trimmed == applied.messages
       IN  /\ messages' = trimmed
           /\ only_n_most_recent_images' = applied.only_n_most_recent_images
           /\ policy' = [policy EXCEPT !.ops = applied.ops, !.before = messages]
           /\ sent_messages' = trimmed
           /\ request' = RequestOf(provider, trimmed)
    /\ iteration' = iteration + 1
    /\ pc' = "send"
    /\ UNCHANGED <<parked, translation, invocation, provider, response_params, idx, tool_result_content,
                   nebius_tool_messages, initial_len, calls_issued, failure,
                   api_callback_log, output_log, exec_log, tool_output_log>>

\* ------------------------------------------------------------------- SEND
ResponseTexts == {<<>>, <<"txt">>}

\* the backend's answer: text, n tool calls numbered after calls_issued,
\* the last with unparsable arguments when bad
OpenAIResponse(text, n, bad) ==
    [content |-> text,
     tool_calls |-> [k \in 1..n |->
                       [id |-> CallId(calls_issued + k),
                        name |-> CallName(calls_issued + k),
                        arguments |-> IF bad /\ k = n
                                      THEN <<"{", "oops">>
                                      ELSE json_dumps(CallInput(calls_issued + k))]]]

\* blank: the message carries a text block whose text is empty
AnthropicResponse(text, n, blank) ==
    (IF text # <<>> \/ blank THEN <<[type |-> "text", text |-> text]>> ELSE <<>>)
    \o [k \in 1..n |-> ToolUseBlock(CallId(calls_issued + k),
                                    CallName(calls_issued + k),
                                    CallInput(calls_issued + k))]

Reverse(seq) == [i \in 1..Len(seq) |-> seq[Len(seq) + 1 - i]]

\* the results put in front of the assistant message they answer
EndOfTurnMessages_BeforeAssistant(msgs, trc, ntm) ==
    LET results == IF provider = "nebius" THEN ntm
                   ELSE IF trc = <<>> THEN <<>>
                   ELSE <<[role |-> "user", content |-> List(trc)]>>
    IN  SubSeq(msgs, 1, Len(msgs) - 1) \o results \o <<msgs[Len(msgs)]>>

\* the results appended in reverse order

EndOfTurnMessages_Reversed(msgs, trc, ntm) ==
    IF provider = "nebius"
    THEN msgs \o Reverse(ntm)
    ELSE IF trc = <<>> THEN msgs
         ELSE Append(msgs, [role |-> "user", content |-> List(Reverse(trc))])

\* loop.py 543-552: what the end of the for loop does with the results
EndOfTurnMessages(msgs, trc, ntm) ==
    IF provider = "nebius"
    THEN msgs \o ntm
    ELSE IF trc = <<>> THEN msgs
         ELSE Append(msgs, [role |-> "user", content |-> List(trc)])

\* the loop left inside the for loop after its last block
EndOfTurnPc_StaysInTurn(trc, ntm) == "dispatch"

\* the loop returning after every turn
EndOfTurnPc_AlwaysReturns(trc, ntm) == "returned"

EndOfTurnPc(trc, ntm) ==
    IF provider = "nebius"
    THEN IF ntm # <<>> THEN "build" ELSE "returned"
    ELSE IF trc = <<>> THEN "returned" ELSE "build"

\* the text of the response appended as the assistant message before the
\* arguments are parsed
RaisedOnParse_AppendsText(msgs, openai_response) ==
    Append(msgs, [role |-> "assistant",
                  content |-> List(IF openai_response.content # <<>>
                                   THEN <<TextBlock(openai_response.content)>>
                                   ELSE <<>>)])

\* loop.py 505-514: json.loads raises inside the conversion of the
\* response, before messages.append is reached
RaisedOnParse(msgs, openai_response) == msgs

\* loop.py 440-446/464-472 returning, then 487-517; json.loads raising in
\* the conversion (loop.py 280) leaves sampling_loop as an exception
BackendRespond ==
    /\ pc = "send"
    /\ \E n \in 0..(MaxToolCalls - calls_issued), text \in ResponseTexts,
          bad \in BOOLEAN, blank \in BOOLEAN :
        /\ (n > 0 /\ iteration > 1) => text = <<>>
        /\ bad => (provider = "nebius" /\ n > 0)
        /\ blank => (provider # "nebius" /\ text = <<>>)
        /\ LET nebius == provider = "nebius"
               raises == nebius /\ ~OpenAIArgsValid(OpenAIResponse(text, n, bad))
               params == IF nebius
                         THEN _convert_openai_response_to_anthropic(
                                  OpenAIResponse(text, n, bad))
                         ELSE _response_to_params(AnthropicResponse(text, n, blank))
           IN  /\ api_callback_log' = Append(api_callback_log,
                    IF nebius
                    THEN [request |-> "None", response |-> "response",
                          exception |-> "None"]
                    ELSE [request |-> "http_request", response |-> "http_response",
                          exception |-> "None"])
               /\ calls_issued' = calls_issued + n
               /\ IF raises
                  THEN /\ pc' = "raised"
                       /\ messages' = RaisedOnParse(messages, OpenAIResponse(text, n, bad))
                       /\ UNCHANGED <<response_params, idx,
                                      tool_result_content, nebius_tool_messages,
                                      output_log, exec_log, tool_output_log>>
                  ELSE /\ messages' = Append(messages,
                              [role |-> "assistant", content |-> List(params)])
                       /\ response_params' = params
                       /\ idx' = 1
                       /\ tool_result_content' = <<>>
                       /\ nebius_tool_messages' = <<>>
                       /\ output_log' = <<>>
                       /\ exec_log' = <<>>
                       /\ tool_output_log' = <<>>
                       /\ pc' = IF params = <<>> THEN "returned" ELSE "dispatch"
    /\ UNCHANGED <<parked, translation, policy, invocation, provider, only_n_most_recent_images, request, sent_messages,
                   iteration, initial_len, failure>>

\* the exceptions the client of this provider raises, by the except clause
\* that catches them (loop.py 473-485)
FailureKinds ==
    IF provider = "nebius" THEN {"other"}
    ELSE {"status", "validation", "api", "other"}

\* the failed request tried again
AfterFailurePc_Retries(kind, callback_raises) == "build"

\* loop.py 474-485: where the except clause leaves the loop; the callback's
\* own exception is swallowed only in the last clause (loop.py 481-484)
AfterFailurePc(kind, callback_raises) ==
    IF callback_raises /\ kind # "other" THEN "raised" ELSE "returned"

\* `return messages` of the except clauses, with a note of the failure added
ReturnedOnFailure_AddsNote(msgs, kind) ==
    Append(msgs, [role |-> "assistant", content |-> Str(<<kind>>)])

\* loop.py 475/478/485: `return messages`
ReturnedOnFailure(msgs, kind) == msgs

BackendFail ==
    /\ pc = "send"
    /\ \E kind \in FailureKinds, callback_raises \in BOOLEAN :
        /\ failure' = kind
        /\ api_callback_log' = Append(api_callback_log,
              [request |-> IF kind = "other" THEN "None" ELSE "e.request",
               response |-> IF kind = "other" THEN "None"
                            ELSE IF kind = "api" THEN "e.body" ELSE "e.response",
               exception |-> kind])
        /\ pc' = AfterFailurePc(kind, callback_raises)
        /\ messages' = ReturnedOnFailure(messages, kind)
    /\ UNCHANGED <<parked, translation, policy, invocation, provider, only_n_most_recent_images, response_params,
                   idx, tool_result_content, nebius_tool_messages, request,
                   sent_messages, iteration, initial_len, calls_issued,
                   output_log, exec_log, tool_output_log>>

\* ---------------------------------------------------------- DISPATCH_TOOLS
\* the for loop moves past response_params[idx]; after the last block the
\* results are appended and the loop returns or goes round (loop.py 543-552)
Advance(trc, ntm) ==
    /\ idx' = idx + 1
    /\ tool_result_content' = trc
    /\ nebius_tool_messages' = ntm
    /\ IF idx = Len(response_params)
       THEN /\ messages' = EndOfTurnMessages(messages, trc, ntm)
            /\ pc' = EndOfTurnPc(trc, ntm)
       ELSE /\ pc' = "dispatch"
            /\ UNCHANGED messages

\* loop.py 519-525: output_callback, and for a tool_use block the call of
\* tool_collection.run, which suspends the loop
OutputBlock ==
    /\ pc = "dispatch"
    /\ idx <= Len(response_params)
    /\ output_log' = Append(output_log, response_params[idx])
    /\ IF response_params[idx].type = "tool_use"
       THEN /\ exec_log' = Append(exec_log,
                  [event |-> "start", id |-> response_params[idx].id])
            /\ pc' = "running"
            /\ UNCHANGED <<messages, idx, tool_result_content, nebius_tool_messages>>
       ELSE /\ Advance(tool_result_content, nebius_tool_messages)
            /\ UNCHANGED exec_log
    /\ UNCHANGED <<parked, translation, policy, invocation, provider, only_n_most_recent_images, response_params, request,
                   sent_messages, iteration, initial_len, calls_issued, failure,
                   api_callback_log, tool_output_log>>

\* loop.py 522-541: tool_collection.run returns a ToolResult
ToolReturn ==
    /\ pc = "running"
    /\ \E result \in ToolResultChoices(response_params[idx].id) :
        LET block == response_params[idx]
        IN  /\ exec_log' = Append(exec_log, [event |-> "return", id |-> block.id])
            /\ tool_output_log' = Append(tool_output_log,
                                         [result |-> result, id |-> block.id])
            /\ IF provider = "nebius"
               THEN Advance(tool_result_content,
                            nebius_tool_messages
                              \o _make_nebius_tool_result(result, block.id, block.name))
               ELSE Advance(Append(tool_result_content,
                                   _make_api_tool_result(result, block.id)),
                            nebius_tool_messages)
    /\ UNCHANGED <<parked, translation, policy, invocation, provider, only_n_most_recent_images, response_params, request,
                   sent_messages, iteration, initial_len, calls_issued, failure,
                   api_callback_log, output_log>>

\* loop.py 522-525: tool_collection.run raises; no handler encloses the call,
\* so the exception leaves sampling_loop
ToolRaise ==
    /\ pc = "running"
    /\ exec_log' = Append(exec_log, [event |-> "raise", id |-> response_params[idx].id])
    /\ pc' = "raised"
    /\ UNCHANGED <<parked, translation, policy, invocation, provider, only_n_most_recent_images, messages, response_params,
                   idx, tool_result_content, nebius_tool_messages, request,
                   sent_messages, iteration, initial_len, calls_issued, failure,
                   api_callback_log, output_log, tool_output_log>>

Next ==
    \/ BuildRequest
    \/ BackendRespond
    \/ BackendFail
    \/ OutputBlock
    \/ ToolReturn
    \/ ToolRaise

Spec == Init /\ [][Next]_vars

\* ------------------------------------------------ the loop, run to its end
\* sampling_loop is one coroutine: between two suspension points its code
\* runs on, and at a suspension point (the request to the backend, the run
\* of a tool) it goes on when the awaited call returns or raises. A step
\* that can be taken is taken in the end.
\* The caller's conversation is the plain one.
LiveInit == Init /\ messages = PlainConversation

LiveSpec == LiveInit /\ [][Next]_vars /\ WF_vars(Next)

\* -------------------------------------------------- the loop, called again
\* sampling_loop returns the conversation to its caller, who may append a
\* user message and call it again with the same arguments (the resume by
\* re-invocation of the front end). The provider is the one with prompt
\* caching. calls_issued goes on counting over the invocations and the
\* caller's message is counted with the tool calls, so that MaxToolCalls
\* bounds the user messages added to the conversation.
CallerMessage == [role |-> "user", content |-> List(<<TextBlock(<<"more">>)>>)]

ReinvokeInit == Init /\ provider = "anthropic"

Reinvoke ==
    /\ pc = "returned"
    /\ calls_issued < MaxToolCalls
    /\ calls_issued' = calls_issued + 1
    /\ invocation' = invocation + 1
    /\ messages' = Append(messages, CallerMessage)
    /\ only_n_most_recent_images' = policy.keep
    /\ policy' = [policy EXCEPT !.ops = {}, !.before = <<>>]
    /\ pc' = "build"
    /\ response_params' = <<>>
    /\ idx' = 0
    /\ tool_result_content' = <<>>
    /\ nebius_tool_messages' = <<>>
    /\ request' = [messages |-> <<>>, tool_choice |-> "unset"]
    /\ sent_messages' = <<>>
    /\ iteration' = 0
    /\ initial_len' = Len(messages) + 1
    /\ failure' = "none"
    /\ api_callback_log' = <<>>
    /\ output_log' = <<>>
    /\ exec_log' = <<>>
    /\ tool_output_log' = <<>>
    /\ UNCHANGED <<parked, translation, provider>>

ReinvokeNext == Next \/ Reinvoke

ReinvokeSpec == ReinvokeInit /\ [][ReinvokeNext]_vars

\* ------------------------------------------- the history policies, by input
\* The two policy functions applied to conversations of any shape, with any
\* images_to_keep and min_removal_threshold: the caller of sampling_loop may
\* hand in any conversation, and the functions take the parameters as given.
MaxPolicyLen == 5
PolicyKeeps == 0..2
PolicyChunks == {1, 3}

\* messages a conversation may hold at position n: an assistant message with
\* a tool call; a user message with one tool result of text and a screenshot;
\* a user message with a tool result of two screenshots around a text,
\* followed by an image the user attached; a user message with an error
\* tool result (string content)
PolicyMessages(n) ==
    LET id == CallId(n)
    IN  { [role |-> "assistant",
           content |-> List(<<ToolUseBlock(id, CallName(n), CallInput(n))>>)],
          [role |-> "user",
           content |-> List(<<_make_api_tool_result(
                                ToolResult(<<"out">>, <<>>, ImageData(id), <<>>), id)>>)],
          [role |-> "user",
           content |-> List(<<[type |-> "tool_result",
                               content |-> List(<<ImageBlock(ImageData(id \o "_a")),
                                                  TextBlock(<<"out">>),
                                                  ImageBlock(ImageData(id \o "_b"))>>),
                               tool_use_id |-> id,
                               is_error |-> FALSE,
                               cache_control |-> FALSE],
                              ImageBlock(ImageData("attached"))>>)],
          [role |-> "user",
           content |-> List(<<_make_api_tool_result(
                                ToolResult(<<>>, <<"err">>, <<>>, <<>>), id)>>)] }

PolicyInit ==
    /\ provider = "bedrock"
    /\ only_n_most_recent_images = 0
    /\ messages = <<>>
    /\ pc = "policy"
    /\ response_params = <<>>
    /\ idx = 0
    /\ tool_result_content = <<>>
    /\ nebius_tool_messages = <<>>
    /\ request = [messages |-> <<>>, tool_choice |-> "unset"]
    /\ sent_messages = <<>>
    /\ iteration = 0
    /\ initial_len = 0
    /\ calls_issued = 0
    /\ failure = "none"
    /\ api_callback_log = <<>>
    /\ output_log = <<>>
    /\ exec_log = <<>>
    /\ tool_output_log = <<>>
    /\ \E keep \in PolicyKeeps, chunk \in PolicyChunks :
          policy = [keep |-> keep, chunk |-> chunk, ops |-> {}, before |-> <<>>]
    /\ invocation = 1
    /\ translation = NoTranslation
    /\ parked = NoParked

PolicyUnchanged ==
    UNCHANGED <<parked, translation, invocation, provider, only_n_most_recent_images, pc, response_params,
                idx, tool_result_content, nebius_tool_messages, request,
                sent_messages, iteration, initial_len, calls_issued, failure,
                api_callback_log, output_log, exec_log, tool_output_log>>

\* the conversation grows by one message, until the policies are applied
PolicyAppend ==
    /\ pc = "policy"
    /\ policy.ops = {}
    /\ Len(messages) < MaxPolicyLen
    /\ \E m \in PolicyMessages(Len(messages) + 1) : messages' = Append(messages, m)
    /\ policy' = [policy EXCEPT !.ops = {}, !.before = <<>>]
    /\ PolicyUnchanged

\* loop.py 555-601 called on the conversation, in place
PolicyFilter ==
    /\ pc = "policy"
    /\ messages' = _maybe_filter_to_n_most_recent_images(
                       messages, policy.keep, policy.chunk)
    /\ policy' = [policy EXCEPT !.ops = {"filter"}, !.before = messages]
    /\ PolicyUnchanged

\* loop.py 627-649 called on the conversation, in place
PolicyInject ==
    /\ pc = "policy"
    /\ messages' = _inject_prompt_caching(messages)
    /\ policy' = [policy EXCEPT !.ops = {"inject"}, !.before = messages]
    /\ PolicyUnchanged

PolicyNext == PolicyAppend \/ PolicyFilter \/ PolicyInject

PolicySpec == PolicyInit /\ [][PolicyNext]_vars

\* ------------------------------------------------- the translators, by input
\* _convert_anthropic_messages_to_openai and _convert_anthropic_tools_to_openai
\* applied to what a caller may hand them: a conversation, a list of tool
\* parameters.
MaxTranslateLen == 3
MaxTools == 3

\* messages a conversation may hold at position n: text messages of both
\* roles, with string content or lists of text blocks, one list empty; an
\* assistant message with a tool call; user messages with a tool result for the call of the
\* message before (answering nothing when that message holds no call),
\* alone with text and image, or after a text block
TranslateMessages(n) ==
    { [role |-> "user", content |-> Str(<<"hi">>)],
      [role |-> "user", content |-> List(<<>>)],
      [role |-> "user", content |-> List(<<TextBlock(<<"a">>)>>)],
      [role |-> "user", content |-> List(<<TextBlock(<<"a">>), TextBlock(<<"b">>)>>)],
      [role |-> "assistant",
       content |-> List(<<TextBlock(<<"x">>), TextBlock(<<"y">>)>>)],
      [role |-> "assistant",
       content |-> List(<<TextBlock(<<"look">>),
                          ToolUseBlock(CallId(n), CallName(n), CallInput(n))>>)],
      [role |-> "user",
       content |-> List(<<_make_api_tool_result(
                            ToolResult(<<"out">>, <<>>, ImageData(CallId(n - 1)), <<>>),
                            CallId(n - 1))>>)],
      [role |-> "user",
       content |-> List(<<TextBlock(<<"note">>),
                          _make_api_tool_result(
                            ToolResult(<<>>, <<"err">>, <<>>, <<>>), CallId(n - 1))>>)] }

\* tool parameters: built-in tools as the Anthropic API takes them (name and
\* type), custom tools with description and schema, one of them named like
\* a built-in tool, one with a name only
ToolParams ==
    { [name |-> "computer", type |-> "computer_20250124"],
      [name |-> "str_replace_editor", type |-> "text_editor_20250124"],
      [name |-> "bash", description |-> <<"run a command">>,
       input_schema |-> <<"object", "cmd">>],
      [name |-> "search", description |-> <<"search the web">>,
       input_schema |-> <<"object", "query">>],
      [name |-> "lookup"] }

TranslateInit ==
    /\ provider = "nebius"
    /\ only_n_most_recent_images = 0
    /\ messages = <<>>
    /\ pc = "translate"
    /\ response_params = <<>>
    /\ idx = 0
    /\ tool_result_content = <<>>
    /\ nebius_tool_messages = <<>>
    /\ request = [messages |-> <<>>, tool_choice |-> "unset"]
    /\ sent_messages = <<>>
    /\ iteration = 0
    /\ initial_len = 0
    /\ calls_issued = 0
    /\ failure = "none"
    /\ api_callback_log = <<>>
    /\ output_log = <<>>
    /\ exec_log = <<>>
    /\ tool_output_log = <<>>
    /\ policy = [keep |-> 0, chunk |-> 0, ops |-> {}, before |-> <<>>]
    /\ invocation = 1
    /\ translation = NoTranslation
    /\ parked = NoParked

TranslateUnchanged ==
    UNCHANGED <<parked, policy, invocation, provider, only_n_most_recent_images, pc,
                response_params, idx, tool_result_content, nebius_tool_messages,
                iteration, initial_len, calls_issued, failure,
                api_callback_log, output_log, exec_log, tool_output_log>>

\* the caller's conversation grows by one message
TranslateAppend ==
    /\ pc = "translate"
    /\ translation = NoTranslation
    /\ Len(messages) < MaxTranslateLen
    /\ \E m \in TranslateMessages(Len(messages) + 1) : messages' = Append(messages, m)
    /\ UNCHANGED <<request, sent_messages, translation>>
    /\ TranslateUnchanged

\* the caller's tool list grows by one tool
TranslateAddTool ==
    /\ pc = "translate"
    /\ translation.op = "none"
    /\ messages = <<>>
    /\ Len(translation.anthropic_tools) < MaxTools
    /\ \E tool \in ToolParams :
          translation' = [translation EXCEPT !.anthropic_tools = Append(@, tool)]
    /\ UNCHANGED <<messages, request, sent_messages>>
    /\ TranslateUnchanged

\* loop.py 44-140 called on the conversation
TranslateConversation ==
    /\ pc = "translate"
    /\ translation = NoTranslation
    /\ request' = [messages |-> _convert_anthropic_messages_to_openai(messages),
                   tool_choice |-> "unset"]
    /\ sent_messages' = messages
    /\ translation' = [translation EXCEPT !.op = "messages"]
    /\ UNCHANGED messages
    /\ TranslateUnchanged

\* loop.py 143-260 called on the tool list
TranslateTools ==
    /\ pc = "translate"
    /\ translation.op = "none"
    /\ messages = <<>>
    /\ translation' = [translation EXCEPT
                          !.op = "tools",
                          !.openai_tools =
                              _convert_anthropic_tools_to_openai(translation.anthropic_tools)]
    /\ UNCHANGED <<messages, request, sent_messages>>
    /\ TranslateUnchanged

\* loop.py 263-283 and adapters.py 80-92 called on a response of the
\* OpenAI-compatible backend; json.loads raises in both for arguments that
\* are no JSON
TranslateResponse ==
    /\ pc = "translate"
    /\ translation = NoTranslation
    /\ messages = <<>>
    /\ \E text \in ResponseTexts, n \in 0..MaxToolCalls, bad \in BOOLEAN :
        /\ bad => n > 0
        /\ LET response == OpenAIResponse(text, n, bad)
           IN  translation' =
                 IF OpenAIArgsValid(response)
                 THEN [translation EXCEPT
                          !.op = "response",
                          !.openai_response = response,
                          !.params = _convert_openai_response_to_anthropic(response),
                          !.internal = from_api_response(response)]
                 ELSE [translation EXCEPT
                          !.op = "response_raised",
                          !.openai_response = response]
    /\ UNCHANGED <<messages, request, sent_messages>>
    /\ TranslateUnchanged

TranslateNext ==
    \/ TranslateAppend
    \/ TranslateAddTool
    \/ TranslateConversation
    \/ TranslateTools
    \/ TranslateResponse

TranslateSpec == TranslateInit /\ [][TranslateNext]_vars

\* ------------------------------------------- two invocations, interleaved
\* Two calls of sampling_loop on two conversations run as two coroutines of
\* one event loop. The variables hold the invocation that is running and
\* `parked` the other one: its conversation (the caller's list), its
\* arguments and locals (loop.py 356-383: tool_collection, system, and those
\* of the while loop) and what its callbacks have logged. The module holds
\* no object the loop writes to: PROMPT_CACHING_BETA_FLAG and SYSTEM_PROMPT
\* are strings and ANTHROPIC_TO_OPENAI_TOOLS is built inside each call of
\* the converter. The event loop passes control when the running coroutine
\* awaits (loop.py 522, tool_collection.run) and when it has ended; the
\* request to the backend is a blocking call and no await. calls_issued, the backend's count of the tool calls it has asked
\* for, goes on over both invocations.
Park(session) ==
    [session |-> session,
     provider |-> provider,
     only_n_most_recent_images |-> only_n_most_recent_images,
     messages |-> messages,
     pc |-> pc,
     response_params |-> response_params,
     idx |-> idx,
     tool_result_content |-> tool_result_content,
     nebius_tool_messages |-> nebius_tool_messages,
     request |-> request,
     sent_messages |-> sent_messages,
     iteration |-> iteration,
     initial_len |-> initial_len,
     failure |-> failure,
     api_callback_log |-> api_callback_log,
     output_log |-> output_log,
     exec_log |-> exec_log,
     tool_output_log |-> tool_output_log,
     policy |-> policy,
     invocation |-> invocation]

\* the results collected in the turn kept in one place for both invocations
Resume_SharedResults(frame) ==
    /\ provider' = frame.provider
    /\ only_n_most_recent_images' = frame.only_n_most_recent_images
    /\ messages' = frame.messages
    /\ pc' = frame.pc
    /\ response_params' = frame.response_params
    /\ idx' = frame.idx
    /\ UNCHANGED <<tool_result_content, nebius_tool_messages>>
    /\ request' = frame.request
    /\ sent_messages' = frame.sent_messages
    /\ iteration' = frame.iteration
    /\ initial_len' = frame.initial_len
    /\ failure' = frame.failure
    /\ api_callback_log' = frame.api_callback_log
    /\ output_log' = frame.output_log
    /\ exec_log' = frame.exec_log
    /\ tool_output_log' = frame.tool_output_log
    /\ policy' = frame.policy
    /\ invocation' = frame.invocation

\* the coroutine goes on with its own frame and its own conversation
Resume(frame) ==
    /\ provider' = frame.provider
    /\ only_n_most_recent_images' = frame.only_n_most_recent_images
    /\ messages' = frame.messages
    /\ pc' = frame.pc
    /\ response_params' = frame.response_params
    /\ idx' = frame.idx
    /\ tool_result_content' = frame.tool_result_content
    /\ nebius_tool_messages' = frame.nebius_tool_messages
    /\ request' = frame.request
    /\ sent_messages' = frame.sent_messages
    /\ iteration' = frame.iteration
    /\ initial_len' = frame.initial_len
    /\ failure' = frame.failure
    /\ api_callback_log' = frame.api_callback_log
    /\ output_log' = frame.output_log
    /\ exec_log' = frame.exec_log
    /\ tool_output_log' = frame.tool_output_log
    /\ policy' = frame.policy
    /\ invocation' = frame.invocation

\* both invocations on the OpenAI-compatible provider, invocation 1 with
\* the plain conversation and keeping one image, invocation 2 with the
\* resumed one and keeping every image
DuoInit ==
    /\ provider = "nebius"
    /\ only_n_most_recent_images = 1
    /\ messages = PlainConversation
    /\ pc = "build"
    /\ response_params = <<>>
    /\ idx = 0
    /\ tool_result_content = <<>>
    /\ nebius_tool_messages = <<>>
    /\ request = [messages |-> <<>>, tool_choice |-> "unset"]
    /\ sent_messages = <<>>
    /\ iteration = 0
    /\ initial_len = Len(messages)
    /\ calls_issued = 0
    /\ failure = "none"
    /\ api_callback_log = <<>>
    /\ output_log = <<>>
    /\ exec_log = <<>>
    /\ tool_output_log = <<>>
    /\ policy = [keep |-> 1, chunk |-> 1, ops |-> {}, before |-> <<>>]
    /\ invocation = 1
    /\ translation = NoTranslation
    /\ parked = [session |-> 2,
                 provider |-> "nebius",
                 only_n_most_recent_images |-> 0,
                 messages |-> ResumedConversation,
                 pc |-> "build",
                 response_params |-> <<>>,
                 idx |-> 0,
                 tool_result_content |-> <<>>,
                 nebius_tool_messages |-> <<>>,
                 request |-> [messages |-> <<>>, tool_choice |-> "unset"],
                 sent_messages |-> <<>>,
                 iteration |-> 0,
                 initial_len |-> Len(ResumedConversation),
                 failure |-> "none",
                 api_callback_log |-> <<>>,
                 output_log |-> <<>>,
                 exec_log |-> <<>>,
                 tool_output_log |-> <<>>,
                 policy |-> [keep |-> 0, chunk |-> 0, ops |-> {}, before |-> <<>>],
                 invocation |-> 1]

\* the event loop passes control to the other coroutine
Switch ==
    /\ parked.session # 0
    /\ \/ pc = "running"
       \/ pc \in {"returned", "raised"}
    /\ parked.pc \notin {"returned", "raised"}
    /\ Resume(parked)
    /\ parked' = Park(3 - parked.session)
    /\ UNCHANGED <<calls_issued, translation>>

DuoNext == Next \/ Switch

DuoSpec == DuoInit /\ [][DuoNext]_vars

\* ================================================================ properties
Ended == {"returned", "raised"}

ToolCallIds(blocks) ==
    Concat([i \in 1..Len(blocks) |->
              IF blocks[i].type = "tool_use" THEN <<blocks[i].id>> ELSE <<>>])

\* the turn of the latest assistant message is over and was not cut short
\* by a backend failure
ReturnedNormally == pc = "returned" /\ failure = "none"
WentRound == pc = "build" /\ iteration >= 1

\* C1: the loop returns exactly when the parsed assistant message holds no
\* tool call: if it has returned (without a backend failure) the message
\* has no tool call and is the last message of the conversation, and after
\* a single request the conversation is one message longer than at entry;
\* if it has gone round to build the next request the message has a call.
C1_ReturnsIffNoToolCalls ==
    /\ ReturnedNormally =>
          /\ ToolCallIds(response_params) = <<>>
          /\ messages[Len(messages)] =
                [role |-> "assistant", content |-> List(response_params)]
          /\ (iteration = 1 => Len(messages) = initial_len + 1)
    /\ WentRound => ToolCallIds(response_params) # <<>>

C1_Witness ==
    /\ ReturnedNormally
    /\ iteration = 1
    /\ Len(messages) = initial_len + 1
    /\ provider = "nebius"

\* the ids of the calls the executor was started on this turn, in order
StartedIds ==
    Concat([k \in 1..Len(exec_log) |->
              IF exec_log[k].event = "start" THEN <<exec_log[k].id>> ELSE <<>>])

\* C2: for the assistant message of the turn the executor is invoked once
\* per tool call in call order, never before the previous invocation has
\* returned; once the loop has left the message every call has been invoked.
C2_EveryCallInvokedOnceInOrder ==
    /\ \A k \in 2..Len(exec_log) :
          exec_log[k].event = "start" => exec_log[k - 1].event = "return"
    /\ Len(StartedIds) <= Len(ToolCallIds(response_params))
    /\ StartedIds = SubSeq(ToolCallIds(response_params), 1, Len(StartedIds))
    /\ (pc \in Ended \cup {"build"} /\ iteration >= 1) =>
          StartedIds = ToolCallIds(response_params)

ExecutorRaised ==
    exec_log # <<>> /\ exec_log[Len(exec_log)].event = "raise"

\* C3: when the executor raises for a call the loop does not abort: the
\* failure is handed on as an error tool result for that call.
C3_ExecutorExceptionCaptured ==
    ExecutorRaised =>
        /\ pc # "raised"
        /\ \E k \in 1..Len(tool_output_log) :
              /\ tool_output_log[k].id = exec_log[Len(exec_log)].id
              /\ tool_output_log[k].result.error # <<>>

\* --------------------------------------------------- requests to the backend
IsNebiusRequest == provider = "nebius" /\ iteration >= 1

HasKey(m, key) == key \in DOMAIN m

\* wire message i answers a tool call of an assistant wire message before it
AnswersEarlierCall(wire, i) ==
    /\ HasKey(wire[i], "tool_call_id")
    /\ \E j \in 1..(i - 1) :
          /\ wire[j].role = "assistant"
          /\ HasKey(wire[j], "tool_calls")
          /\ \E c \in 1..Len(wire[j].tool_calls) :
                wire[j].tool_calls[c].id = wire[i].tool_call_id

\* C4: every tool-role wire message of every request sent to the
\* OpenAI-compatible backend carries the id of a tool call of a preceding
\* assistant wire message of that request.
C4_ToolMessagesCarryCallId ==
    IsNebiusRequest =>
        \A i \in 1..Len(request.messages) :
            request.messages[i].role = "tool" =>
                AnswersEarlierCall(request.messages, i)

\* a user wire message whose content holds exactly this image
IsImageMessage(m, data) ==
    /\ m.role = "user"
    /\ HasKey(m, "content")
    /\ m.content = List(<<ImageUrlPart("image/png", data)>>)

\* C5: on the OpenAI-compatible path the image a tool returned in the
\* previous turn is carried by the next request, as a user image message
\* right after the tool message of the call that produced it.
C5_ImagesCarriedToNextRequest ==
    (IsNebiusRequest /\ pc = "send") =>
        \A k \in 1..Len(tool_output_log) :
            tool_output_log[k].result.base64_image # <<>> =>
                \E i \in 1..(Len(request.messages) - 1) :
                    /\ request.messages[i].role = "tool"
                    /\ HasKey(request.messages[i], "tool_call_id")
                    /\ request.messages[i].tool_call_id = tool_output_log[k].id
                    /\ IsImageMessage(request.messages[i + 1],
                                      tool_output_log[k].result.base64_image)

\* the messages appended after the assistant message of the turn
AppendedResults == SubSeq(messages, Len(sent_messages) + 2, Len(messages))

\* the call ids of the tool results held by a sequence of messages, in
\* order: tool_result blocks (Anthropic style), tool messages (Nebius)
ResultIds(msgs) ==
    Concat([i \in 1..Len(msgs) |->
        IF msgs[i].role = "tool" /\ HasKey(msgs[i], "tool_call_id")
        THEN <<msgs[i].tool_call_id>>
        ELSE IF msgs[i].content.str THEN <<>>
        ELSE LET b == msgs[i].content.blocks
             IN  Concat([j \in 1..Len(b) |->
                    IF b[j].type = "tool_result" THEN <<b[j].tool_use_id>> ELSE <<>>])])

Distinct(seq) == \A i, j \in 1..Len(seq) : seq[i] = seq[j] => i = j

\* C6: after the results of a turn are appended, the results appended after
\* the assistant message are, in call order, exactly one per tool call of
\* that message, each with that call's id, and no other.
C6_OneResultPerCallInOrder ==
    WentRound =>
        /\ messages[Len(sent_messages) + 1] =
              [role |-> "assistant", content |-> List(response_params)]
        /\ ResultIds(AppendedResults) = ToolCallIds(response_params)
        /\ Distinct(ResultIds(AppendedResults))

C6_Witness ==
    /\ WentRound
    /\ Len(ToolCallIds(response_params)) >= 2
    /\ Len(ResultIds(AppendedResults)) >= 2

FailureCallbacks ==
    SelectSeq(api_callback_log, LAMBDA e : e.exception # "None")

EveryCallAnswered(msgs) ==
    \A i \in 1..Len(msgs) :
        (msgs[i].role = "assistant" /\ ~msgs[i].content.str) =>
            LET calls == ToolCallIds(msgs[i].content.blocks)
                later == ResultIds(SubSeq(msgs, i + 1, Len(msgs)))
            IN  \A c \in 1..Len(calls) :
                    \E r \in 1..Len(later) : later[r] = calls[c]

\* C8: when the backend call fails the conversation is exactly the one the
\* failed request was built from, and every tool call in it has its result.
C8_FailureLeavesConversation ==
    failure # "none" =>
        /\ messages = sent_messages
        /\ EveryCallAnswered(messages)

C8_Witness ==
    /\ failure # "none"
    /\ iteration = 2
    /\ Len(messages) > initial_len
    /\ provider = "bedrock"

\* C9: _make_nebius_tool_result gives, for a result with an image, the tool
\* message with the text and the call id and then the user image message,
\* and for a result without an image the tool message alone.
C9_NebiusToolResultShape ==
    \A k \in 1..Len(tool_output_log) :
        LET r == tool_output_log[k].result
            id == tool_output_log[k].id
            m == _make_nebius_tool_result(r, id, "computer")
            text == IF r.error # <<>> THEN r.error ELSE r.output
        IN  /\ Len(m) = IF r.base64_image # <<>> THEN 2 ELSE 1
            /\ m[1].role = "tool"
            /\ m[1].tool_call_id = id
            /\ m[1].content = Str(_maybe_prepend_system_tool_result(r, text))
            /\ r.base64_image # <<>> => IsImageMessage(m[2], r.base64_image)

C9_Witness ==
    /\ provider = "nebius"
    /\ Len(tool_output_log) >= 2
    /\ tool_output_log[1].result.base64_image # <<>>
    /\ tool_output_log[2].result.base64_image = <<>>

\* the tool_result blocks of a message that hold both text and an image
TextAndImageResults(message) ==
    IF ~IsUserList(message) THEN <<>>
    ELSE SelectSeq(message.content.blocks,
                   LAMBDA b : /\ IsToolResultList(b)
                              /\ \E k \in 1..Len(b.content.blocks) :
                                    b.content.blocks[k].type = "text"
                              /\ \E k \in 1..Len(b.content.blocks) :
                                    b.content.blocks[k].type = "image")

ImageDataOf(block) ==
    SelectSeq(block.content.blocks, LAMBDA c : c.type = "image")[1].source.data

\* C10: for a user message holding a tool_result block with text and an
\* image, _convert_anthropic_messages_to_openai emits the block's tool
\* message and, immediately after it, the user image message.
C10_ToolMessageThenImage ==
    (IsNebiusRequest /\ pc = "send") =>
        \A i \in 1..Len(sent_messages) :
            LET wire == _convert_anthropic_messages_to_openai(<<sent_messages[i]>>)
                blocks == TextAndImageResults(sent_messages[i])
            IN  \A b \in 1..Len(blocks) :
                    \E p \in 1..(Len(wire) - 1) :
                        /\ wire[p].role = "tool"
                        /\ wire[p].tool_call_id = blocks[b].tool_use_id
                        /\ wire[p].content = Str(ToolResultText(blocks[b]))
                        /\ IsImageMessage(wire[p + 1], ImageDataOf(blocks[b]))

\* a tool result that is not an error and has both text output and an image
TextAndImage(result) ==
    result.error = <<>> /\ result.output # <<>> /\ result.base64_image # <<>>

FilterApplied == pc = "policy" /\ policy.ops = {"filter"}
InjectApplied == pc = "policy" /\ policy.ops = {"inject"}

\* the data of the images held by tool results (list content), oldest first
ToolImages(msgs) ==
    Concat([i \in 1..Len(msgs) |->
        IF msgs[i].content.str THEN <<>>
        ELSE LET b == msgs[i].content.blocks
             IN  Concat([j \in 1..Len(b) |->
                    IF IsToolResultList(b[j])
                    THEN LET c == b[j].content.blocks
                         IN  Concat([k \in 1..Len(c) |->
                                IF c[k].type = "image"
                                THEN <<c[k].source.data>> ELSE <<>>])
                    ELSE <<>>])])

\* max(0, total - keep) rounded down to a multiple of chunk
TrimCount(total, keep, chunk) ==
    LET excess == IF total > keep THEN total - keep ELSE 0
    IN  (excess \div chunk) * chunk

\* C12: _maybe_filter_to_n_most_recent_images with keep and chunk >= 1
\* removes exactly e images, e being max(0, total - keep) rounded down to a
\* multiple of chunk, and the images removed are the e oldest: the images
\* left are the former ones without the first e.
C12_RemovesOldestInChunks ==
    FilterApplied =>
        LET old == ToolImages(policy.before)
            e == TrimCount(Len(old), policy.keep, policy.chunk)
        IN  ToolImages(messages) = SubSeq(old, e + 1, Len(old))

\* keep = 1, chunk = 3, seven images: exactly one is left, the newest
C12_Witness ==
    /\ FilterApplied
    /\ policy.keep = 1
    /\ policy.chunk = 3
    /\ Len(ToolImages(policy.before)) = 7
    /\ ToolImages(messages) = <<ToolImages(policy.before)[7]>>

RECURSIVE OnlyImagesDropped(_, _)
\* `after` is `before` with some image items deleted, the rest in order
OnlyImagesDropped(before, after) ==
    IF before = <<>> THEN after = <<>>
    ELSE \/ /\ after # <<>>
            /\ Head(before) = Head(after)
            /\ OnlyImagesDropped(Tail(before), Tail(after))
         \/ /\ Head(before).type = "image"
            /\ OnlyImagesDropped(Tail(before), after)

\* C13: the trimmer changes nothing but the content lists of tool results,
\* from which it deletes image items: the number, order and roles of the
\* messages, every item that is not a tool result, every other field of a
\* tool result and the order of the items it retains are as before.
C13_OnlyToolResultImagesDeleted ==
    FilterApplied =>
        /\ Len(messages) = Len(policy.before)
        /\ \A i \in 1..Len(messages) :
             LET was == policy.before[i]
                 now == messages[i]
             IN  IF was.content.str THEN now = was
                 ELSE /\ now.role = was.role
                      /\ ~now.content.str
                      /\ Len(now.content.blocks) = Len(was.content.blocks)
                      /\ \A j \in 1..Len(was.content.blocks) :
                           LET b == was.content.blocks[j]
                               c == now.content.blocks[j]
                           IN  IF IsToolResultList(b)
                               THEN /\ IsToolResultList(c)
                                    /\ c = [b EXCEPT !.content.blocks = c.content.blocks]
                                    /\ OnlyImagesDropped(b.content.blocks, c.content.blocks)
                               ELSE c = b

\* images were deleted from a conversation that also holds an image outside
\* a tool result, a text between two deleted images, and other messages
C13_Witness ==
    /\ FilterApplied
    /\ Len(ToolImages(messages)) + 2 <= Len(ToolImages(policy.before))
    /\ \E i \in 1..Len(messages) :
          /\ ~messages[i].content.str
          /\ \E j \in 1..Len(messages[i].content.blocks) :
                LET c == messages[i].content.blocks[j]
                IN  /\ IsToolResultList(c)
                    /\ c.content.blocks = <<TextBlock(<<"out">>)>>
          /\ \E j \in 1..Len(messages[i].content.blocks) :
                messages[i].content.blocks[j].type = "image"
    /\ \E i \in 1..Len(messages) : messages[i].role = "assistant"

\* the images tools have produced that the conversation holds, oldest
\* first: image items of tool results (Anthropic style) and the image_url
\* parts of the user messages _make_nebius_tool_result appends
ProducedImages(msgs) ==
    Concat([i \in 1..Len(msgs) |->
        IF msgs[i].content.str THEN <<>>
        ELSE LET b == msgs[i].content.blocks
             IN  Concat([j \in 1..Len(b) |->
                    IF b[j].type = "image_url" THEN <<b[j].image_url.url>>
                    ELSE ToolImages(<<[role |-> "user", content |-> List(<<b[j]>>)]>>)])])

\* C14: when the caller set no image-retention count (policy.keep = 0
\* stands for None) no step of the loop removes an image from the
\* conversation: every message it held before a step is still there after
\* it, at its position and holding the same images in the same order.
C14_UnsetKeepsEveryImage ==
    [][policy.keep = 0 =>
          /\ Len(messages') >= Len(messages)
          /\ \A i \in 1..Len(messages) :
                \/ messages'[i] = messages[i]
                \/ ProducedImages(<<messages'[i]>>) = ProducedImages(<<messages[i]>>)]_vars

\* two requests were built with no count set and the conversation still
\* holds the image it came with and one produced since
C14_Witness ==
    /\ policy.keep = 0
    /\ provider = "bedrock"
    /\ iteration >= 2
    /\ pc = "send"
    /\ Len(ProducedImages(sent_messages)) >= 2

\* a request has been built in a run whose caller set a retention count
SendWithKeep == pc = "send" /\ policy.keep # 0

\* C15 as stated: whenever a request has been built with a retention count
\* set, the trimmer was applied in that iteration, whatever the provider.
C15_TrimmerAppliedEveryBackend ==
    SendWithKeep => "filter" \in policy.ops

\* C15, amended: with a retention count set, on every provider but
\* "anthropic" (bedrock, vertex, nebius) the trimmer is applied in every
\* iteration before the request is built: the conversation the request is
\* built from is the trimmed one. On "anthropic", where prompt caching is
\* enabled, the loop clears the count and never applies the trimmer.
C15_TrimmerAppliedUnlessCaching ==
    SendWithKeep =>
        IF provider = "anthropic"
        THEN /\ "filter" \notin policy.ops
             /\ only_n_most_recent_images = 0
             /\ ToolImages(sent_messages) = ToolImages(policy.before)
        ELSE /\ "filter" \in policy.ops
             /\ sent_messages = _maybe_filter_to_n_most_recent_images(
                                    policy.before, policy.keep, policy.keep)
             /\ request.messages =
                   IF provider = "nebius"
                   THEN <<[role |-> "system",
                           content |-> Str(SYSTEM_PROMPT \o SystemPromptSuffix)]>>
                        \o _convert_anthropic_messages_to_openai(sent_messages)
                   ELSE sent_messages

\* on vertex the trimmer took an image out before the request was built
C15_Witness ==
    /\ SendWithKeep
    /\ provider = "vertex"
    /\ "filter" \in policy.ops
    /\ Len(ToolImages(sent_messages)) < Len(ToolImages(policy.before))
    /\ request.messages = sent_messages

\* C16: with a retention count set, at every SEND the conversation being
\* sent holds fewer than keep + chunk images produced by tools (chunk is
\* the removal chunk the loop uses, equal to keep), on the Anthropic-style
\* providers and on the OpenAI-compatible one.
C16_ImagesBoundedAtSend ==
    SendWithKeep =>
        Len(ProducedImages(sent_messages)) < policy.keep + policy.chunk

\* positions of the messages _inject_prompt_caching looks at (role user,
\* list content), in conversation order
UserListPositions(msgs) ==
    SelectSeq([i \in 1..Len(msgs) |-> i], LAMBDA i : IsUserList(msgs[i]))

\* the content items of a message that carry a cache-breakpoint marker
MarkedItems(message) ==
    IF message.content.str THEN {}
    ELSE {j \in 1..Len(message.content.blocks) :
             /\ HasKey(message.content.blocks[j], "cache_control")
             /\ message.content.blocks[j].cache_control}

MarkedMessages(msgs) == {i \in 1..Len(msgs) : MarkedItems(msgs[i]) # {}}

\* the message with the marker of its last content item taken off
Unmarked(message) ==
    [message EXCEPT !.content.blocks[Len(message.content.blocks)].cache_control = FALSE]

\* C17: _inject_prompt_caching on a conversation with at least four user
\* messages with list content, none marked, leaves exactly three user
\* messages marked: the three most recent, each on its last content item
\* only; the fourth most recent carries no marker and every other message
\* is as it was.
C17_ThreeMostRecentMarked ==
    (/\ InjectApplied
     /\ MarkedMessages(policy.before) = {}
     /\ Len(UserListPositions(policy.before)) >= 4) =>
        LET u == UserListPositions(policy.before)
            n == Len(u)
            recent == {u[n], u[n - 1], u[n - 2]}
        IN  /\ Len(messages) = Len(policy.before)
            /\ MarkedMessages(messages) = recent
            /\ Cardinality(MarkedMessages(messages)) = 3
            /\ MarkedItems(messages[u[n - 3]]) = {}
            /\ \A i \in 1..Len(messages) :
                  IF i \in recent
                  THEN /\ MarkedItems(messages[i]) = {Len(messages[i].content.blocks)}
                       /\ Unmarked(messages[i]) = policy.before[i]
                  ELSE messages[i] = policy.before[i]

\* five user messages with list content: three marked, the two oldest not
C17_Witness ==
    /\ InjectApplied
    /\ MarkedMessages(policy.before) = {}
    /\ Len(UserListPositions(policy.before)) = 5
    /\ MarkedMessages(messages) = {3, 4, 5}

\* C18: on the Anthropic provider, starting from a conversation without
\* markers, over any sequence of iterations and of re-invocations before
\* which the caller appended one user message, every request sent carries
\* cache-breakpoint markers on at most three user messages.
C18_AtMostThreeMarkedPerRequest ==
    pc = "send" =>
        /\ request.messages = sent_messages
        /\ Cardinality(MarkedMessages(request.messages)) <= 3
        /\ \A i \in MarkedMessages(request.messages) : IsUserList(request.messages[i])

\* a request of the second invocation, built from five user messages with
\* list content, of which three are marked
C18_Witness ==
    /\ pc = "send"
    /\ invocation = 2
    /\ Len(UserListPositions(request.messages)) >= 5
    /\ Cardinality(MarkedMessages(request.messages)) = 3

\* the paths <<j>> and <<j, k>> of the content items of a message, top-level
\* and inside a tool result, that carry a cache-breakpoint marker
Markers(message) ==
    IF message.content.str THEN {}
    ELSE LET b == message.content.blocks
         IN  {<<j>> : j \in MarkedItems(message)}
             \cup UNION {
                 IF HasKey(b[j], "content") /\ ~b[j].content.str
                 THEN {<<j, k>> : k \in {k \in 1..Len(b[j].content.blocks) :
                                           b[j].content.blocks[k].cache_control}}
                 ELSE {} : j \in 1..Len(b)}

\* C19: on the OpenAI-compatible provider no step of the loop adds or
\* clears a cache-breakpoint marker: every message the conversation held
\* before the step carries the markers it carried, and the messages the
\* step appended carry none.
C19_NebiusLeavesMarkers ==
    [][provider = "nebius" =>
          \A i \in 1..Len(messages') :
              Markers(messages'[i]) =
                  IF i <= Len(messages) THEN Markers(messages[i]) ELSE {}]_vars

\* two requests were built on nebius from a conversation that came with
\* markers, and the markers are where they were
C19_Witness ==
    /\ provider = "nebius"
    /\ pc = "send"
    /\ iteration >= 2
    /\ MarkedMessages(sent_messages) = {1, 3}
    /\ Len(sent_messages) > 3

\* a message without what the history policies may change in place: the
\* image items of its tool results and, for a user message, the marker of
\* its last content item
PolicyFree(message) ==
    IF message.content.str THEN message
    ELSE LET b == message.content.blocks
             stripped(block) ==
                 IF IsToolResultList(block)
                 THEN [block EXCEPT !.content.blocks =
                          SelectSeq(block.content.blocks, LAMBDA c : c.type # "image")]
                 ELSE block
         IN  [message EXCEPT !.content.blocks =
                 [j \in 1..Len(b) |->
                     IF /\ j = Len(b)
                        /\ message.role = "user"
                        /\ HasKey(b[j], "cache_control")
                     THEN [stripped(b[j]) EXCEPT !.cache_control = FALSE]
                     ELSE stripped(b[j])]]

\* C20: the conversation is append-only during a run of the loop: after
\* every step it holds, at the same positions and with the same roles, the
\* messages it held before, and these differ from what they were at most
\* by image items deleted from tool results and by the marker of the last
\* content item of a user message.
C20_AppendOnly ==
    [][/\ Len(messages') >= Len(messages)
       /\ \A i \in 1..Len(messages) :
             \/ messages'[i] = messages[i]
             \/ /\ messages'[i].role = messages[i].role
                /\ PolicyFree(messages'[i]) = PolicyFree(messages[i])]_vars

\* the third request of a run: the conversation has grown by two turns and
\* the policies took the marker off its oldest user message
C20_Witness ==
    /\ pc = "send"
    /\ iteration >= 3
    /\ Len(messages) >= initial_len + 4
    /\ MarkedMessages(policy.before) # MarkedMessages(messages)
    /\ 1 \in MarkedMessages(policy.before) \ MarkedMessages(messages)

\* ------------------------------------------------------- failures of parsing
\* the run ended with an exception that neither a tool nor the diagnostic
\* callback of a failed backend call raised: json.loads on the arguments of
\* a tool call of the response
JsonRaised == pc = "raised" /\ ~ExecutorRaised /\ failure = "none"

\* C21: when the response holds a tool call whose arguments are not valid
\* JSON the loop ends with an exception: the conversation is the one the
\* request was built from (no assistant message of that response), the
\* only tools ever started are those of earlier turns, whose results the
\* conversation holds, and no step of the loop can follow.
C21_InvalidArgumentsEndTheRun ==
    JsonRaised =>
        /\ provider = "nebius"
        /\ messages = sent_messages
        /\ \A k \in 1..Len(StartedIds) :
              \E r \in 1..Len(ResultIds(messages)) :
                  ResultIds(messages)[r] = StartedIds[k]
        /\ Len(api_callback_log) = iteration
        /\ ~ENABLED Next

\* the second response of a run has the invalid arguments
C21_Witness ==
    /\ JsonRaised
    /\ iteration = 2
    /\ StartedIds # <<>>
    /\ Len(messages) > initial_len

\* C22: a response with neither text nor a tool call is refused: the
\* conversation never holds an assistant message with empty content and the
\* loop never returns normally on a turn whose assistant message is empty.
C22_EmptyResponseRefused ==
    /\ \A i \in 1..Len(messages) :
          ~(/\ messages[i].role = "assistant"
            /\ ~messages[i].content.str
            /\ messages[i].content.blocks = <<>>)
    /\ ReturnedNormally => response_params # <<>>

\* ---------------------------------------------------------------- C23
\* the ids of the tool calls of the wire messages before position j
WireCallIdsBefore(wire, j) ==
    Concat([i \in 1..(j - 1) |->
              IF wire[i].role = "assistant" /\ "tool_calls" \in DOMAIN wire[i]
              THEN [k \in 1..Len(wire[i].tool_calls) |-> wire[i].tool_calls[k].id]
              ELSE <<>>])

\* C23: a tool result whose call id matches no tool call earlier in the
\* conversation is never translated into a wire tool message: every tool
\* message of a translated conversation answers a tool call of an earlier
\* wire message.
C23_NoWireMessageForDanglingResult ==
    translation.op = "messages" =>
        \A j \in 1..Len(request.messages) :
            request.messages[j].role = "tool" =>
                \E k \in 1..Len(WireCallIdsBefore(request.messages, j)) :
                    WireCallIdsBefore(request.messages, j)[k] =
                        request.messages[j].tool_call_id

\* ---------------------------------------------------------------- C24
\* the loop has left the assistant message of the turn: it has returned, it
\* has gone round, or the executor's exception has ended it
LeftTheMessage ==
    /\ iteration >= 1
    /\ failure = "none"
    /\ pc \in {"build", "returned"} \/ ExecutorRaised

\* C24: in every iteration the display callback fires once for each content
\* item of the appended assistant message, in item order, and the
\* tool-output callback once for each tool call, in call order, with the id
\* of the call, after the call's execution has returned.
C24_CallbacksOncePerItem ==
    /\ \A k \in 1..Len(tool_output_log) :
          \E e \in 1..Len(exec_log) :
              exec_log[e] = [event |-> "return", id |-> tool_output_log[k].id]
    /\ LeftTheMessage =>
          /\ output_log = response_params
          /\ [k \in 1..Len(tool_output_log) |-> tool_output_log[k].id] =
                ToolCallIds(response_params)

\* ---------------------------------------------------------------- C25
\* C25: the display callback has been invoked for every content item of the
\* assistant message before the first tool call of the message is
\* dispatched, and the tool results are appended only after every tool call
\* of the turn has been dispatched.
C25_DisplayedBeforeFirstDispatch ==
    /\ exec_log # <<>> => output_log = response_params
    /\ (iteration >= 1 /\ failure = "none"
          /\ messages[Len(messages)].role # "assistant"
          /\ Len(messages) > Len(sent_messages)) =>
          StartedIds = ToolCallIds(response_params)

\* ---------------------------------------------------------------- C26
ToolsTranslated == translation.op = "tools"

\* the declaration that copies the tool's own fields
CopiedDeclaration(tool) ==
    [type |-> "function",
     function |-> [name |-> Get(tool, "name", "unknown"),
                   description |-> Get(tool, "description", <<>>),
                   parameters |-> Get(tool, "input_schema", <<>>)]]

\* C26 as stated: every tool's name, description and input schema are copied
\* verbatim, the tools named computer, str_replace_editor and bash included,
\* one declaration per input tool in input order.
C26_EveryToolCopiedVerbatim ==
    ToolsTranslated =>
        /\ Len(translation.openai_tools) = Len(translation.anthropic_tools)
        /\ \A i \in 1..Len(translation.anthropic_tools) :
              translation.openai_tools[i] =
                  CopiedDeclaration(translation.anthropic_tools[i])

\* C26, amended: one declaration per input tool, in input order, with the
\* tool's name; description and input schema are copied verbatim (empty
\* when absent) for every tool not named computer, str_replace_editor or
\* bash, and a tool with one of these names gets the declaration written
\* out in the converter, whatever description and schema it came with.
C26_CustomToolsCopiedBuiltinsPredefined ==
    ToolsTranslated =>
        /\ Len(translation.openai_tools) = Len(translation.anthropic_tools)
        /\ \A i \in 1..Len(translation.anthropic_tools) :
              LET tool == translation.anthropic_tools[i]
                  decl == translation.openai_tools[i]
              IN  /\ decl.type = "function"
                  /\ decl.function.name = tool.name
                  /\ IF tool.name \in {"computer", "str_replace_editor", "bash"}
                     THEN /\ decl = ANTHROPIC_TO_OPENAI_TOOLS[tool.name]
                          /\ decl # CopiedDeclaration(tool)
                     ELSE decl = CopiedDeclaration(tool)

C26_Witness ==
    /\ ToolsTranslated
    /\ Len(translation.anthropic_tools) = 3
    /\ translation.anthropic_tools[1].name = "search"
    /\ translation.anthropic_tools[2].name = "bash"
    /\ translation.anthropic_tools[3].name = "lookup"
    /\ translation.openai_tools[2].function.description # <<"run a command">>
    /\ translation.openai_tools[3].function.parameters = <<>>

\* ---------------------------------------------------------------- C27
ConversationTranslated == translation.op = "messages"

\* the text a wire message carries: its string content, or the text parts
\* of its content list, in order
WireText(wire_message) ==
    IF ~HasKey(wire_message, "content") THEN <<>>
    ELSE IF wire_message.content.str THEN wire_message.content.text
    ELSE Concat([k \in 1..Len(wire_message.content.blocks) |->
                   IF HasKey(wire_message.content.blocks[k], "text")
                   THEN wire_message.content.blocks[k].text
                   ELSE <<>>])

\* C27: the order of the content items inside a message is kept: when a
\* user message holds a text block before a tool_result block, the wire
\* message with the text comes before the tool message of the result.
C27_ItemOrderKeptOnTheWire ==
    ConversationTranslated =>
        \A i \in 1..Len(sent_messages) :
            IsUserList(sent_messages[i]) =>
                LET blocks == sent_messages[i].content.blocks
                    wire == request.messages
                IN  \A p \in 1..Len(blocks), q \in 1..Len(blocks) :
                        (p < q /\ blocks[p].type = "text"
                               /\ blocks[q].type = "tool_result") =>
                            \E a \in 1..Len(wire), b \in 1..Len(wire) :
                                /\ a < b
                                /\ wire[a].role = "user"
                                /\ WireText(wire[a]) = blocks[p].text
                                /\ wire[b].role = "tool"
                                /\ wire[b].tool_call_id = blocks[q].tool_use_id

\* ---------------------------------------------------------------- C28
\* the text of a message: its string content, or the text of its text
\* blocks, in order
MessageText(message) ==
    IF message.content.str THEN message.content.text
    ELSE Concat([k \in 1..Len(message.content.blocks) |->
                   IF message.content.blocks[k].type = "text"
                   THEN message.content.blocks[k].text
                   ELSE <<>>])

\* every message is a string or a list, not empty, of text blocks
TextOnly(msgs) ==
    \A i \in 1..Len(msgs) :
        \/ msgs[i].content.str
        \/ /\ msgs[i].content.blocks # <<>>
           /\ \A k \in 1..Len(msgs[i].content.blocks) :
                 msgs[i].content.blocks[k].type = "text"

\* C28: a conversation of text messages only (string content or lists of
\* text blocks) is translated into one wire message per message, in order,
\* with the same role and the same text, and no tool call or tool message.
C28_TextConversationOneToOne ==
    (ConversationTranslated /\ TextOnly(sent_messages)) =>
        /\ Len(request.messages) = Len(sent_messages)
        /\ \A i \in 1..Len(sent_messages) :
              /\ request.messages[i].role = sent_messages[i].role
              /\ WireText(request.messages[i]) = MessageText(sent_messages[i])
              /\ ~HasKey(request.messages[i], "tool_calls")

C28_Witness ==
    /\ ConversationTranslated
    /\ TextOnly(sent_messages)
    /\ Len(sent_messages) = 3
    /\ sent_messages[1].content.str
    /\ sent_messages[2].role = "assistant"
    /\ Len(sent_messages[2].content.blocks) = 2
    /\ IsUserList(sent_messages[3])
    /\ Len(sent_messages[3].content.blocks) = 2
    /\ ~request.messages[3].content.str

\* ---------------------------------------------------------------- C29
\* C29: when every backend call and every tool execution returns and no
\* error ends the invocation, the invocation returns the conversation in
\* the end; and it never returns while the latest response still requests
\* a tool, unless the request to the backend failed.
C29_ReturnsInTheEnd ==
    /\ [](ReturnedNormally => ToolCallIds(response_params) = <<>>)
    /\ [](pc # "raised") => <>(pc = "returned")

C29_Witness ==
    /\ ReturnedNormally
    /\ iteration = 3
    /\ provider = "bedrock"
    /\ calls_issued = 2
    /\ Len(messages) = initial_len + 5

\* ---------------------------------------------------------------- C30
\* the running invocation: its conversation, arguments, locals and logs
Running ==
    <<provider, only_n_most_recent_images, messages, pc, response_params, idx,
      tool_result_content, nebius_tool_messages, request, sent_messages,
      iteration, initial_len, failure, api_callback_log, output_log, exec_log,
      tool_output_log, policy, invocation>>

\* the same of a suspended invocation
Suspended(frame) ==
    <<frame.provider, frame.only_n_most_recent_images, frame.messages, frame.pc,
      frame.response_params, frame.idx, frame.tool_result_content,
      frame.nebius_tool_messages, frame.request, frame.sent_messages,
      frame.iteration, frame.initial_len, frame.failure, frame.api_callback_log,
      frame.output_log, frame.exec_log, frame.tool_output_log, frame.policy,
      frame.invocation>>

ResponseTranslated == translation.op = "response"

\* the blocks a response with text and tool calls is to become: the text,
\* then one tool call per wire tool call, in wire order
TextThenCalls(response) ==
    <<TextBlock(response.content)>>
    \o [i \in 1..Len(response.tool_calls) |->
          ToolUseBlock(response.tool_calls[i].id, response.tool_calls[i].name,
                       json_loads(response.tool_calls[i].arguments))]

\* C31: a response of the OpenAI-compatible backend with both text and
\* tool calls becomes an assistant message with both, the text first and
\* then one tool call per wire tool call, in wire order, with the same id
\* and name, by _convert_openai_response_to_anthropic and by
\* NebiusOpenAIAdapter.from_api_response.
C31_TextAndCallsBothKept ==
    (/\ ResponseTranslated
     /\ translation.openai_response.content # <<>>
     /\ translation.openai_response.tool_calls # <<>>) =>
        LET response == translation.openai_response
            items == translation.internal.content.blocks
        IN  /\ translation.params = TextThenCalls(response)
            /\ ~translation.internal.content.str
            /\ Len(items) = Len(response.tool_calls) + 1
            /\ items[1] = response.content
            /\ \A i \in 1..Len(response.tool_calls) :
                  /\ items[i + 1].id = response.tool_calls[i].id
                  /\ items[i + 1].name = response.tool_calls[i].name

\* ---------------------------------------------------------------- C32
\* the text an error result is narrated with
ErrorText(result) ==
    IF result.system # <<>>
    THEN <<"<system>">> \o result.system \o <<"</system>\n">> \o result.error
    ELSE result.error

\* msgs holds the error result of the call with this id: a tool message
\* with the text on the OpenAI-compatible path, a tool_result block with the
\* text, flagged as an error, in the last user message otherwise
HoldsErrorResult(msgs, result, id) ==
    IF provider = "nebius"
    THEN \E i \in 1..Len(msgs) :
            /\ msgs[i].role = "tool"
            /\ msgs[i].content = Str(ErrorText(result))
            /\ HasKey(msgs[i], "tool_call_id") => msgs[i].tool_call_id = id
    ELSE /\ IsUserList(msgs[Len(msgs)])
         /\ \E b \in 1..Len(msgs[Len(msgs)].content.blocks) :
               LET block == msgs[Len(msgs)].content.blocks[b]
               IN  /\ block.type = "tool_result"
                   /\ block.tool_use_id = id
                   /\ block.content = Str(ErrorText(result))
                   /\ block.is_error

\* the tool runs of the turn have all returned and one gave an error result
TurnWithErrorResult ==
    /\ iteration >= 1
    /\ failure = "none"
    /\ pc \in {"build", "send", "returned"}
    /\ \E k \in 1..Len(tool_output_log) : tool_output_log[k].result.error # <<>>

RequestBuilt == iteration >= 1

\* C33: every request to the OpenAI-compatible backend, on every iteration,
\* sets the tool-forcing mode to "required", and no request to an
\* Anthropic-style backend sets a tool-forcing mode.
C33_ToolChoiceRequiredOnlyOnNebius ==
    RequestBuilt =>
        request.tool_choice = IF provider = "nebius" THEN "required" ELSE "unset"

C33_Witness ==
    /\ provider = "nebius"
    /\ pc = "send"
    /\ iteration = 3
    /\ request.tool_choice = "required"

\* ---------------------------------------------------------------- C34
\* the positions of the system messages of a message list
SystemPositions(msgs) == {i \in 1..Len(msgs) : msgs[i].role = "system"}

\* C34: on the OpenAI-compatible path every request's wire messages hold
\* exactly one system message, the first one, with the system prompt and
\* the suffix, and the caller's conversation never gains a system message.
C34_OneSystemMessageFirst ==
    /\ SystemPositions(messages) = {}
    /\ (RequestBuilt /\ provider = "nebius") =>
          /\ SystemPositions(request.messages) = {1}
          /\ request.messages[1].content =
                Str(<<"SYSTEM_PROMPT", " ", "suffix">>)

C34_Witness ==
    /\ provider = "nebius"
    /\ pc = "send"
    /\ iteration = 2
    /\ Len(request.messages) >= 4
    /\ Len(messages) > initial_len

\* ---------------------------------------------------------------- C35
\* C35: on the Anthropic-style path an iteration whose response has k >= 1
\* tool calls appends exactly two messages, the assistant message and then
\* one user message with exactly k tool_result blocks, so that the
\* conversation ends with a user message when the next request is built.
C35_AssistantThenUserPerTurn ==
    (/\ provider # "nebius"
     /\ LeftTheMessage
     /\ ToolCallIds(response_params) # <<>>) =>
        LET n == Len(messages)
        IN  /\ n = Len(sent_messages) + 2
            /\ messages[n - 1] = [role |-> "assistant", content |-> List(response_params)]
            /\ IsUserList(messages[n])
            /\ Len(messages[n].content.blocks) = Len(ToolCallIds(response_params))
            /\ \A b \in 1..Len(messages[n].content.blocks) :
                  messages[n].content.blocks[b].type = "tool_result"

\* ---------------------------------------------------------------- C36
\* C36: after _maybe_filter_to_n_most_recent_images with keep >= 0 and
\* chunk >= 1 on a conversation with `total` images in tool results, the
\* number r of images left satisfies keep <= r < keep + chunk when
\* total >= keep, and r = total when total < keep.
C36_ImagesLeftWithinChunk ==
    FilterApplied =>
        LET total == Len(ToolImages(policy.before))
            r == Len(ToolImages(messages))
        IN  IF total >= policy.keep
            THEN policy.keep <= r /\ r < policy.keep + policy.chunk
            ELSE r = total

\* keep = 2, chunk = 3, six images: three are removed and three left
C36_Witness ==
    /\ FilterApplied
    /\ policy.keep = 2
    /\ policy.chunk = 3
    /\ Len(ToolImages(policy.before)) = 6
    /\ Len(ToolImages(messages)) = 3

\* ---------------------------------------------------------------- C37
\* C37: the trimmer is idempotent: applied with the same keep and chunk to
\* its own result it removes no further image and leaves the conversation
\* as it is.
C37_TrimmerIdempotent ==
    [][(FilterApplied /\ FilterApplied') =>
          /\ messages' = messages
          /\ Len(ToolImages(messages')) = Len(ToolImages(messages))]_vars

\* the trimmer has been applied to its own result, which had lost images
\* in the first application
C37_Witness ==
    /\ FilterApplied
    /\ policy.before = messages
    /\ policy.chunk = 3
    /\ Len(ToolImages(messages)) = policy.keep + 1
    /\ \E i \in 1..Len(messages) :
          /\ ~messages[i].content.str
          /\ \E j \in 1..Len(messages[i].content.blocks) :
                /\ IsToolResultList(messages[i].content.blocks[j])
                /\ BlockImages(messages[i].content.blocks[j]) = 0

\* ---------------------------------------------------------------- C38
\* C38: an exception raised by the diagnostic callback never changes the
\* outcome: after a backend failure of any kind the loop has returned the
\* conversation, whatever the callback did, and after a successful call
\* the response is parsed and the loop goes on.
C38_CallbackExceptionHarmless ==
    /\ failure # "none" => pc = "returned" /\ messages = sent_messages
    /\ (failure = "none" /\ pc = "raised") => JsonRaised \/ ExecutorRaised

====
